---------------------------- MODULE Spec2Model ----------------------------
(***************************************************************************)
(* Parallel (associative-scan) filtering and smoothing of dynamax:         *)
(*   dynamax/hmm/parallel_inference.py                 (hmm_filter,        *)
(*                                                      hmm_smoother)      *)
(*   dynamax/linear_gaussian_ssm/parallel_inference.py (lgssm_filter,      *)
(*                                                      lgssm_smoother)    *)
(*                                                                         *)
(* Numbers are exact rationals <<n, d>> in lowest terms with d > 0; the    *)
(* floating-point NaN is the extra value <<0, 0>>.  A log-domain number x  *)
(* (a log-likelihood, a log-normalizer) is the record [log |-> r] that     *)
(* stands for x = log(r), so that minus infinity is [log |-> 0]; Log and   *)
(* Exp convert between the two domains.                                    *)
(***************************************************************************)
EXTENDS Integers, Sequences, FiniteSets, TLC

----------------------------------------------------------------------------
(* Rational arithmetic with IEEE NaN propagation.                          *)

Abs(n) == IF n < 0 THEN -n ELSE n

RECURSIVE GCD(_, _)
GCD(a, b) == IF b = 0 THEN a ELSE GCD(b, a % b)

NaN == <<0, 0>>

IsNaN(a) == a[2] = 0

Norm(n, d) ==
    IF d = 0 THEN NaN
    ELSE LET g == GCD(Abs(n), Abs(d))
             s == IF d < 0 THEN -1 ELSE 1
         IN  <<s * (n \div g), s * (d \div g)>>

Frac(n, d) == Norm(n, d)

Zero == <<0, 1>>

One == <<1, 1>>

RAdd(a, b) ==
    IF IsNaN(a) \/ IsNaN(b) THEN NaN
    ELSE IF a[1] = 0 THEN b
    ELSE IF b[1] = 0 THEN a
    ELSE LET g == GCD(a[2], b[2])
         IN  Norm(a[1] * (b[2] \div g) + b[1] * (a[2] \div g), a[2] * (b[2] \div g))

RNeg(a) == IF IsNaN(a) THEN NaN ELSE <<-a[1], a[2]>>

RSub(a, b) == RAdd(a, RNeg(b))

RMul(a, b) ==
    IF IsNaN(a) \/ IsNaN(b) THEN NaN
    ELSE IF a[1] = 0 \/ b[1] = 0 THEN Zero
    ELSE LET g1 == GCD(Abs(a[1]), b[2])
             g2 == GCD(Abs(b[1]), a[2])
         IN  <<(a[1] \div g1) * (b[1] \div g2), (a[2] \div g2) * (b[2] \div g1)>>

(* x / y.  0 / 0 is NaN.  A nonzero x over 0 (an infinity in IEEE) does    *)
(* not occur: every divisor below is a sum of the nonnegative terms it     *)
(* divides, a maximum of the terms it divides, or the determinant of a     *)
(* positive definite matrix.                                               *)
RDiv(a, b) ==
    IF IsNaN(a) \/ IsNaN(b) \/ b[1] = 0 THEN NaN
    ELSE RMul(a, Norm(b[2], b[1]))

RLess(a, b) == a[1] * b[2] < b[1] * a[2]

RECURSIVE RSum(_)
RSum(s) == IF s = <<>> THEN Zero ELSE RAdd(s[1], RSum(Tail(s)))

----------------------------------------------------------------------------
(* Vectors are sequences of rationals, matrices sequences of rows.         *)

(* The array with the entries of f, each computed once.                    *)
Arr(f) == f \o <<>>

(* The element of a singleton set; with S == {e(x) : x \in {v}} this is    *)
(* e(v) with v computed once.                                              *)
Only(S) == CHOOSE r \in S : TRUE

Dot(u, v) == RSum(Arr([k \in 1..Len(u) |-> RMul(u[k], v[k])]))

Col(B, j) == Arr([k \in 1..Len(B) |-> B[k][j]])

Transpose(A) == Arr([j \in 1..Len(A[1]) |-> Col(A, j)])

MatMul(A, B) ==
    Arr([i \in 1..Len(A) |-> Arr([j \in 1..Len(B[1]) |-> Dot(A[i], Col(B, j))])])

MatVec(A, v) == Arr([i \in 1..Len(A) |-> Dot(A[i], v)])

VecMat(v, B) == Arr([j \in 1..Len(B[1]) |-> Dot(v, Col(B, j))])

MatAdd(A, B) ==
    Arr([i \in 1..Len(A) |-> Arr([j \in 1..Len(A[1]) |-> RAdd(A[i][j], B[i][j])])])

MatSub(A, B) ==
    Arr([i \in 1..Len(A) |-> Arr([j \in 1..Len(A[1]) |-> RSub(A[i][j], B[i][j])])])

VecAdd(u, v) == Arr([i \in 1..Len(u) |-> RAdd(u[i], v[i])])

VecSub(u, v) == Arr([i \in 1..Len(u) |-> RSub(u[i], v[i])])

Eye(n) == Arr([i \in 1..n |-> Arr([j \in 1..n |-> IF i = j THEN One ELSE Zero])])

ZerosLike(A) == Arr([i \in 1..Len(A) |-> Arr([j \in 1..Len(A[1]) |-> Zero])])

----------------------------------------------------------------------------
(* Log-domain numbers.                                                     *)

Log(r) == [log |-> r]

Exp(x) == x.log

LogAdd(x, y) == [log |-> RMul(x.log, y.log)]

LogSub(x, y) == [log |-> RDiv(x.log, y.log)]

RECURSIVE LogMax(_)
LogMax(ll) ==
    IF Len(ll) = 1 THEN ll[1]
    ELSE LET m == LogMax(Tail(ll))
         IN  IF IsNaN(ll[1].log) \/ IsNaN(m.log) THEN Log(NaN)
             ELSE IF RLess(m.log, ll[1].log) THEN ll[1] ELSE m

----------------------------------------------------------------------------
(* dynamax/hmm/parallel_inference.py                                       *)

(* One row of _condition_on: ll_max = ll.max(); A * exp(ll - ll_max);      *)
(* norm = sum; A / norm; log(norm) + ll_max.                               *)
condition_on_row(a, ll) ==
    LET ll_max == LogMax(ll)
        a_cond == Arr([j \in 1..Len(a) |-> RMul(a[j], Exp(LogSub(ll[j], ll_max)))])
        norm   == RSum(a_cond)
    IN  [A       |-> Arr([j \in 1..Len(a) |-> RDiv(a_cond[j], norm)]),
         lognorm |-> LogAdd(Log(norm), ll_max)]

(* _condition_on(A, ll, axis=-1) on a K x K matrix: every row of A is      *)
(* conditioned on the same ll.                                             *)
condition_on(A, ll) ==
    LET rows == Arr([i \in 1..Len(A) |-> condition_on_row(A[i], ll)])
    IN  [A       |-> Arr([i \in 1..Len(A) |-> rows[i].A]),
         lognorm |-> Arr([i \in 1..Len(A) |-> rows[i].lognorm])]

Message(A, log_b) == [A |-> A, log_b |-> log_b]

(* marginalize conditioning m_ij.A on m_ij's own log_b.                    *)
marginalize_own_log_b(m_ij, m_jk) ==
    LET c        == condition_on(m_ij.A, m_ij.log_b)
        A_ik     == MatMul(c.A, m_jk.A)
        log_b_ik == Arr([i \in 1..Len(c.lognorm) |-> LogAdd(m_ij.log_b[i], c.lognorm[i])])
    IN  Message(A_ik, log_b_ik)

(* marginalize leaving the log-normalizer out of log_b.                    *)
marginalize_no_lognorm(m_ij, m_jk) ==
    LET c    == condition_on(m_ij.A, m_jk.log_b)
        A_ik == MatMul(c.A, m_jk.A)
    IN  Message(A_ik, m_ij.log_b)

marginalize(m_ij, m_jk) ==
    LET c        == condition_on(m_ij.A, m_jk.log_b)
        A_ik     == MatMul(c.A, m_jk.A)
        log_b_ik == Arr([i \in 1..Len(c.lognorm) |-> LogAdd(m_ij.log_b[i], c.lognorm[i])])
    IN  Message(A_ik, log_b_ik)

(* The initial messages of hmm_filter: the conditioned initial_probs       *)
(* broadcast to the K rows at t = 0, the conditioned transition_matrix     *)
(* at t > 0.                                                               *)
initial_messages(initial_probs, transition_matrix, log_likelihoods) ==
    LET K  == Len(log_likelihoods[1])
        c0 == condition_on_row(initial_probs, log_likelihoods[1])
    IN  Arr([t \in 1..Len(log_likelihoods) |->
            IF t = 1
            THEN Message(Arr([i \in 1..K |-> c0.A]), Arr([i \in 1..K |-> c0.lognorm]))
            ELSE LET c == condition_on(transition_matrix, log_likelihoods[t])
                 IN  Message(c.A, c.lognorm)])

(* marginal_loglik = log_b[-1, 0]; filtered_probs = A[:, 0, :];            *)
(* predicted_probs = vstack([initial_probs, filtered_probs[:-1] @ T]).     *)
HMMPosterior(initial_probs, transition_matrix, partial_messages) ==
    LET n              == Len(partial_messages)
        filtered_probs == Arr([t \in 1..n |-> partial_messages[t].A[1]])
    IN  [marginal_loglik |-> partial_messages[n].log_b[1],
         filtered_probs  |-> filtered_probs,
         predicted_probs |-> Arr([t \in 1..n |->
                                IF t = 1 THEN initial_probs
                                ELSE VecMat(filtered_probs[t - 1], transition_matrix)])]

----------------------------------------------------------------------------
(* Linear solves, for the 1 x 1 and 2 x 2 systems of the models below.     *)

Det(M) ==
    IF Len(M) = 1 THEN M[1][1]
    ELSE RSub(RMul(M[1][1], M[2][2]), RMul(M[1][2], M[2][1]))

Inverse(M) ==
    LET d == Det(M)
    IN  IF Len(M) = 1 THEN << <<RDiv(One, d)>> >>
        ELSE << <<RDiv(M[2][2], d),       RDiv(RNeg(M[1][2]), d)>>,
                <<RDiv(RNeg(M[2][1]), d), RDiv(M[1][1], d)>> >>

(* jsc.linalg.solve(M, B): the X with M X = B.                             *)
Solve(M, B) == MatMul(Inverse(M), B)

PosDef(M) ==
    /\ M = Transpose(M)
    /\ RLess(Zero, M[1][1])
    /\ RLess(Zero, Det(M))

(* jsc.linalg.cho_solve(jsc.linalg.cho_factor(S), B) and                   *)
(* jsc.linalg.solve(S, B, assume_a='pos'): the Cholesky factor of a matrix *)
(* that is not positive definite is NaN, and so is the solution.           *)
PosSolve(S, B) ==
    IF PosDef(S) THEN Solve(S, B)
    ELSE Arr([i \in 1..Len(B) |-> Arr([j \in 1..Len(B[1]) |-> NaN])])

(* A vector as a column matrix and back.                                   *)
ColMat(v) == Arr([i \in 1..Len(v) |-> <<v[i]>>])

ColVec(B) == Arr([i \in 1..Len(B) |-> B[i][1]])

----------------------------------------------------------------------------
(* dynamax/linear_gaussian_ssm/parallel_inference.py                       *)

FilteringElement(A, b, C, J, eta) == [A |-> A, b |-> b, C |-> C, J |-> J, eta |-> eta]

first_filtering_element(params, y) ==
    LET F   == params.dynamics_matrix
        H   == params.emission_matrix
        Qc  == params.dynamics_covariance
        Rc  == params.emission_covariance
        S   == MatAdd(MatMul(MatMul(H, Qc), Transpose(H)), Rc)
        m1  == params.initial_mean
        P1  == params.initial_covariance
        S1  == MatAdd(MatMul(MatMul(H, P1), Transpose(H)), Rc)
        K1  == Transpose(PosSolve(S1, MatMul(H, P1)))
        A   == ZerosLike(F)
        b   == VecAdd(m1, MatVec(K1, VecSub(y, MatVec(H, m1))))
        C   == MatSub(P1, MatMul(MatMul(K1, S1), Transpose(K1)))
        FtHt == MatMul(Transpose(F), Transpose(H))
        eta == MatVec(FtHt, ColVec(PosSolve(S, ColMat(y))))
        J   == MatMul(FtHt, PosSolve(S, MatMul(H, F)))
    IN  FilteringElement(A, b, C, J, eta)

(* generic_filtering_element with A = F - K H.                             *)
generic_filtering_element_A(params, y) ==
    LET F   == params.dynamics_matrix
        H   == params.emission_matrix
        Qc  == params.dynamics_covariance
        Rc  == params.emission_covariance
        S   == MatAdd(MatMul(MatMul(H, Qc), Transpose(H)), Rc)
        K   == Transpose(PosSolve(S, MatMul(H, Qc)))
        A   == MatSub(F, MatMul(K, H))
        b   == MatVec(K, y)
        C   == MatSub(Qc, MatMul(MatMul(K, H), Qc))
        FtHt == MatMul(Transpose(F), Transpose(H))
        eta == MatVec(FtHt, ColVec(PosSolve(S, ColMat(y))))
        J   == MatMul(FtHt, PosSolve(S, MatMul(H, F)))
    IN  FilteringElement(A, b, C, J, eta)

generic_filtering_element(params, y) ==
    LET F   == params.dynamics_matrix
        H   == params.emission_matrix
        Qc  == params.dynamics_covariance
        Rc  == params.emission_covariance
        S   == MatAdd(MatMul(MatMul(H, Qc), Transpose(H)), Rc)
        K   == Transpose(PosSolve(S, MatMul(H, Qc)))
        A   == MatSub(F, MatMul(MatMul(K, H), F))
        b   == MatVec(K, y)
        C   == MatSub(Qc, MatMul(MatMul(K, H), Qc))
        FtHt == MatMul(Transpose(F), Transpose(H))
        eta == MatVec(FtHt, ColVec(PosSolve(S, ColMat(y))))
        J   == MatMul(FtHt, PosSolve(S, MatMul(H, F)))
    IN  FilteringElement(A, b, C, J, eta)

make_associative_filtering_elements(params, emissions) ==
    Arr([t \in 1..Len(emissions) |->
        IF t = 1 THEN first_filtering_element(params, emissions[1])
        ELSE generic_filtering_element(params, emissions[t])])

(* filtering_operator with eta = temp (eta2 + J2 b1) + eta1.               *)
filtering_operator_eta(elem1, elem2) ==
    LET A1 == elem1.A  b1 == elem1.b  C1 == elem1.C  J1 == elem1.J  eta1 == elem1.eta
        A2 == elem2.A  b2 == elem2.b  C2 == elem2.C  J2 == elem2.J  eta2 == elem2.eta
        I      == Eye(Len(A1))
        I_C1J2 == MatAdd(I, MatMul(C1, J2))
        temp   == Transpose(Solve(Transpose(I_C1J2), Transpose(A2)))
        A      == MatMul(temp, A1)
        b      == VecAdd(MatVec(temp, VecAdd(b1, MatVec(C1, eta2))), b2)
        C      == MatAdd(MatMul(MatMul(temp, C1), Transpose(A2)), C2)
        I_J2C1 == MatAdd(I, MatMul(J2, C1))
        temp2  == Transpose(Solve(Transpose(I_J2C1), A1))
        eta    == VecAdd(MatVec(temp2, VecAdd(eta2, MatVec(J2, b1))), eta1)
        J      == MatAdd(MatMul(MatMul(temp2, J2), A1), J1)
    IN  FilteringElement(A, b, C, J, eta)

filtering_operator(elem1, elem2) ==
    LET A1 == elem1.A  b1 == elem1.b  C1 == elem1.C  J1 == elem1.J  eta1 == elem1.eta
        A2 == elem2.A  b2 == elem2.b  C2 == elem2.C  J2 == elem2.J  eta2 == elem2.eta
        I      == Eye(Len(A1))
        I_C1J2 == MatAdd(I, MatMul(C1, J2))
        temp   == Transpose(Solve(Transpose(I_C1J2), Transpose(A2)))
        A      == MatMul(temp, A1)
        b      == VecAdd(MatVec(temp, VecAdd(b1, MatVec(C1, eta2))), b2)
        C      == MatAdd(MatMul(MatMul(temp, C1), Transpose(A2)), C2)
        I_J2C1 == MatAdd(I, MatMul(J2, C1))
        temp2  == Transpose(Solve(Transpose(I_J2C1), A1))
        eta    == VecAdd(MatVec(temp2, VecSub(eta2, MatVec(J2, b1))), eta1)
        J      == MatAdd(MatMul(MatMul(temp2, J2), A1), J1)
    IN  FilteringElement(A, b, C, J, eta)

SmoothingElement(E, g, L) == [E |-> E, g |-> g, L |-> L]

last_smoothing_element(m, P) == SmoothingElement(ZerosLike(P), m, P)

generic_smoothing_element(params, m, P) ==
    LET F  == params.dynamics_matrix
        Qc == params.dynamics_covariance
        Pp == MatAdd(MatMul(MatMul(F, P), Transpose(F)), Qc)
        E  == Transpose(PosSolve(Pp, MatMul(F, P)))
        g  == VecSub(m, MatVec(MatMul(E, F), m))
        L  == MatSub(P, MatMul(MatMul(E, Pp), Transpose(E)))
    IN  SmoothingElement(E, g, L)

make_associative_smoothing_elements(params, filtered_means, filtered_covariances) ==
    LET n == Len(filtered_means)
    IN  Arr([t \in 1..n |->
            IF t = n THEN last_smoothing_element(filtered_means[n], filtered_covariances[n])
            ELSE generic_smoothing_element(params, filtered_means[t], filtered_covariances[t])])

(* smoothing_operator with its two operands exchanged.                     *)
smoothing_operator_exchanged(elem1, elem2) ==
    LET E1 == elem1.E  g1 == elem1.g  L1 == elem1.L
        E2 == elem2.E  g2 == elem2.g  L2 == elem2.L
        E  == MatMul(E1, E2)
        g  == VecAdd(MatVec(E1, g2), g1)
        L  == MatAdd(MatMul(MatMul(E1, L2), Transpose(E1)), L1)
    IN  SmoothingElement(E, g, L)

(* smoothing_operator with L = E2 L1 E2 + L2.                              *)
smoothing_operator_no_transpose(elem1, elem2) ==
    LET E1 == elem1.E  g1 == elem1.g  L1 == elem1.L
        E2 == elem2.E  g2 == elem2.g  L2 == elem2.L
        E  == MatMul(E2, E1)
        g  == VecAdd(MatVec(E2, g1), g2)
        L  == MatAdd(MatMul(MatMul(E2, L1), E2), L2)
    IN  SmoothingElement(E, g, L)

smoothing_operator(elem1, elem2) ==
    LET E1 == elem1.E  g1 == elem1.g  L1 == elem1.L
        E2 == elem2.E  g2 == elem2.g  L2 == elem2.L
        E  == MatMul(E2, E1)
        g  == VecAdd(MatVec(E2, g1), g2)
        L  == MatAdd(MatMul(MatMul(E2, L1), Transpose(E2)), L2)
    IN  SmoothingElement(E, g, L)

----------------------------------------------------------------------------
(* Bounds and input sets.                                                  *)

(* The longest observation sequence.                                       *)
MaxT == 4

Num(n) == Frac(n, 1)

(* Initial distributions: two on the simplex, one off it.                  *)
InitialProbs ==
    { <<Frac(1, 2), Frac(1, 2)>>, <<One, Zero>>, <<Frac(1, 2), Frac(1, 4)>> }

(* Transition matrices: two row-stochastic, one with a row summing to 3/4. *)
TransitionMatrices ==
    { << <<Frac(1, 2), Frac(1, 2)>>, <<Frac(1, 4), Frac(3, 4)>> >>,
      << <<One, Zero>>,              <<Frac(1, 2), Frac(1, 2)>> >>,
      << <<Frac(1, 2), Frac(1, 4)>>, <<Frac(1, 2), Frac(1, 2)>> >> }

(* Log-likelihood rows: logs of 1, 2, 3 and minus infinity (= log 0).      *)
LogLikRows ==
    { <<Log(Num(1)), Log(Num(2))>>, <<Log(Num(3)), Log(Num(1))>>,
      <<Log(Zero), Log(Num(1))>> }

SeqsUpTo(S, n) == UNION { [1..k -> S] : k \in 1..n }

HmmInputs ==
    [initial_probs     : InitialProbs,
     transition_matrix : TransitionMatrices,
     log_likelihoods   : SeqsUpTo(LogLikRows, MaxT)]

(* The longest observation sequence handed to hmm_smoother.                *)
MaxSmootherT == 3

HmmSmootherInputs ==
    [initial_probs     : InitialProbs,
     transition_matrix : TransitionMatrices,
     log_likelihoods   : SeqsUpTo(LogLikRows, MaxSmootherT)]

(* Linear-Gaussian systems with a 2-dimensional state and a 1-dimensional  *)
(* emission: a constant-velocity model observed in position, and a model   *)
(* that swaps its coordinates under correlated dynamics noise.             *)
LgssmParams ==
    { [initial_mean        |-> <<Num(1), Zero>>,
       initial_covariance  |-> << <<One, Zero>>, <<Zero, One>> >>,
       dynamics_matrix     |-> << <<One, One>>, <<Zero, One>> >>,
       dynamics_covariance |-> << <<One, Zero>>, <<Zero, One>> >>,
       emission_matrix     |-> << <<One, Zero>> >>,
       emission_covariance |-> << <<One>> >>],
      [initial_mean        |-> <<Zero, Num(1)>>,
       initial_covariance  |-> << <<One, Zero>>, <<Zero, Num(2)>> >>,
       dynamics_matrix     |-> << <<Zero, One>>, <<One, Zero>> >>,
       dynamics_covariance |-> << <<Num(2), One>>, <<One, One>> >>,
       emission_matrix     |-> << <<One, Zero>> >>,
       emission_covariance |-> << <<One>> >>] }

Emissions == { <<Num(1)>>, <<Num(-2)>> }

LgssmInputs ==
    [params    : LgssmParams,
     emissions : SeqsUpTo(Emissions, MaxT)]

----------------------------------------------------------------------------
(* State.                                                                  *)

VARIABLES
    kind,     \* the call: "hmm" (hmm_filter), "hmm_smoother" or "lgssm"
              \* (lgssm_smoother)
    inp,      \* the arguments of the call
    pc,       \* "start", "reduce", "even", "extract", "filtered", "done"
    op,       \* the combine function handed to lax.associative_scan
    reverse,  \* the reverse argument of lax.associative_scan
    elems,    \* the elements handed to lax.associative_scan
    stack,    \* the elems of every active call of the scan's recursion
    work,     \* the combines of the current batched call done so far, by index
    ret,      \* what the last finished call of the recursion returned
    post      \* the posterior returned

vars == <<kind, inp, pc, op, reverse, elems, stack, work, ret, post>>

None == [none |-> TRUE]

NoWork == [i \in {} |-> None]

----------------------------------------------------------------------------
(* lax.associative_scan(fn, elems, reverse): with reverse the elems are    *)
(* flipped, scanned with the same fn, and the result flipped back.  The    *)
(* scan is the recursion                                                   *)
(*     reduced = fn(elems[0:-1:2], elems[1::2]); odd = _scan(reduced)      *)
(*     even    = fn(odd[0:-1] or odd, elems[2::2])                         *)
(*     return interleave(concat(elems[0:1], even), odd)                    *)
(* fn is batched over the pairs of one level; the pairs of a level are     *)
(* independent and are combined here one at a time in any order, a level   *)
(* being complete before the next starts.                                  *)

Combine(o, a, b) ==
    CASE o = "marginalize"        -> marginalize(a, b)
      [] o = "filtering_operator" -> filtering_operator(a, b)
      [] o = "smoothing_operator" -> smoothing_operator(a, b)

(* e[a] (+) e[a+1] (+) ... (+) e[b], grouped from the left.                *)
RECURSIVE FoldSeg(_, _, _, _)
FoldSeg(o, e, a, b) ==
    IF a = b THEN e[a]
    ELSE Only({Combine(o, acc, x) : acc \in {FoldSeg(o, e, a, b - 1)}, x \in {e[b]}})

InclusiveFold(o, e) == Arr([t \in 1..Len(e) |-> FoldSeg(o, e, 1, t)])

Reverse(e) == Arr([i \in 1..Len(e) |-> e[Len(e) + 1 - i]])

Flip(rev, e) == IF rev THEN Reverse(e) ELSE e

Top == stack[Len(stack)]

Pop == SubSeq(stack, 1, Len(stack) - 1)

NumPairs(e) == Len(e) \div 2

NumEven(e) == (Len(e) - 1) \div 2

ReducedOperands(e, i) == <<e[2 * i - 1], e[2 * i]>>

EvenOperands(odd_elems, e, i) == <<odd_elems[i], e[2 * i + 1]>>

Interleave(even_elems, odd_elems) ==
    Arr([j \in 1..(Len(even_elems) + Len(odd_elems)) |->
        IF j % 2 = 1 THEN even_elems[(j + 1) \div 2] ELSE odd_elems[j \div 2]])

ReducePair(i) ==
    /\ pc = "reduce"
    /\ Len(Top) >= 2
    /\ i \in 1..NumPairs(Top)
    /\ i \notin DOMAIN work
    /\ LET x == ReducedOperands(Top, i)
       IN  work' = work @@ (i :> Combine(op, x[1], x[2]))
    /\ UNCHANGED <<kind, inp, pc, op, reverse, elems, stack, ret, post>>

Recurse ==
    /\ pc = "reduce"
    /\ Len(Top) >= 2
    /\ DOMAIN work = 1..NumPairs(Top)
    /\ stack' = Append(stack, [i \in 1..NumPairs(Top) |-> work[i]])
    /\ work' = NoWork
    /\ UNCHANGED <<kind, inp, pc, op, reverse, elems, ret, post>>

BaseCase ==
    /\ pc = "reduce"
    /\ Len(Top) < 2
    /\ stack' = Pop
    /\ IF Pop = <<>>
       THEN ret' = Flip(reverse, Top) /\ pc' = "extract"
       ELSE ret' = Top /\ pc' = "even"
    /\ UNCHANGED <<kind, inp, op, reverse, elems, work, post>>

EvenPair(i) ==
    /\ pc = "even"
    /\ i \in 1..NumEven(Top)
    /\ i \notin DOMAIN work
    /\ LET x == EvenOperands(ret, Top, i)
       IN  work' = work @@ (i :> Combine(op, x[1], x[2]))
    /\ UNCHANGED <<kind, inp, pc, op, reverse, elems, stack, ret, post>>

Return ==
    /\ pc = "even"
    /\ DOMAIN work = 1..NumEven(Top)
    /\ LET scanned == Interleave(<<Top[1]>> \o [i \in 1..NumEven(Top) |-> work[i]], ret)
       IN  IF Pop = <<>>
           THEN ret' = Flip(reverse, scanned) /\ pc' = "extract"
           ELSE ret' = scanned /\ pc' = "even"
    /\ stack' = Pop
    /\ work' = NoWork
    /\ UNCHANGED <<kind, inp, op, reverse, elems, post>>

----------------------------------------------------------------------------
(* hmm_filter                                                              *)

HmmStart ==
    /\ pc = "start"
    /\ kind = "hmm"
    /\ elems' = initial_messages(inp.initial_probs, inp.transition_matrix,
                                 inp.log_likelihoods)
    /\ op' = "marginalize"
    /\ reverse' = FALSE
    /\ stack' = <<elems'>>
    /\ pc' = "reduce"
    /\ UNCHANGED <<kind, inp, work, ret, post>>

HmmReturn ==
    /\ pc = "extract"
    /\ kind = "hmm"
    /\ post' = HMMPosterior(inp.initial_probs, inp.transition_matrix, ret)
    /\ pc' = "done"
    /\ UNCHANGED <<kind, inp, op, reverse, elems, stack, work, ret>>

----------------------------------------------------------------------------
(* hmm_smoother                                                            *)

(* hmm_filter's marginal_loglik as a function of hmm_filter's arguments:   *)
(* log_b[-1, 0] of the scanned messages, the last of which is the          *)
(* combination of all the initial messages.                                *)
marginal_loglik(initial_probs, transition_matrix, log_likelihoods) ==
    Only({FoldSeg("marginalize", msgs, 1, Len(msgs)).log_b[1] :
             msgs \in {initial_messages(initial_probs, transition_matrix,
                                        log_likelihoods)}})

(* jnp.log and jnp.exp of a vector and of a matrix.                        *)
LogVec(p) == Arr([j \in 1..Len(p) |-> Log(p[j])])

LogMat(A) == Arr([i \in 1..Len(A) |-> LogVec(A[i])])

ExpVec(x) == Arr([j \in 1..Len(x) |-> Exp(x[j])])

ExpMat(X) == Arr([i \in 1..Len(X) |-> ExpVec(X[i])])

(* log_normalizer returns (post.marginal_loglik, post); this is the first, *)
(* the differentiated output.                                              *)
log_normalizer(log_initial_probs, log_transition_matrix, log_likelihoods) ==
    marginal_loglik(ExpVec(log_initial_probs), ExpMat(log_transition_matrix),
                    log_likelihoods)

(* The array x of log-domain numbers with log(c) added to the entry at     *)
(* idx, which is <<j>> for a vector and <<i, j>> for a matrix.             *)
ShiftEntry(x, idx, c) ==
    IF Len(idx) = 1
    THEN [x EXCEPT ![idx[1]] = LogAdd(@, Log(Num(c)))]
    ELSE [x EXCEPT ![idx[1]][idx[2]] = LogAdd(@, Log(Num(c)))]

(* exp(marginal_loglik) is a polynomial in exp of every entry of the       *)
(* arguments of log_normalizer: of degree 1 in an entry of                 *)
(* log_initial_probs (argument 0) and of log_likelihoods (argument 2), of  *)
(* degree at most T - 1 in an entry of log_transition_matrix (argument 1), *)
(* which every message after the first uses.                               *)
Degree(argnum, args) == IF argnum = 1 THEN Len(args[3]) - 1 ELSE 1

(* For v = <<q(1), q(2), ..., q(d + 1)>> with q a polynomial of degree at  *)
(* most d, the sum over k >= n of (-1)^(k + n) (D^(k - n + 1) v)[1] / k,   *)
(* D the forward difference; with n = 1 this is q'(1).                     *)
RECURSIVE DifferenceSeries(_, _)
DifferenceSeries(v, n) ==
    IF Len(v) <= 1 THEN Zero
    ELSE Only({RSub(RDiv(dv[1], Num(n)), DifferenceSeries(dv, n + 1)) :
                  dv \in {Arr([i \in 1..(Len(v) - 1) |-> RSub(v[i + 1], v[i])])}})

(* The partial derivative of marginal_loglik with respect to the entry idx *)
(* of argument argnum at args, where exp(marginal_loglik) is Z0.  With     *)
(* q(c) = exp(marginal_loglik) at the entry increased by log(c), the       *)
(* derivative is q'(1) / q(1).  The derivative with respect to an entry    *)
(* that the computation does not use is 0.                                 *)
Partial(argnum, idx, args, Z0) ==
    LET d    == Degree(argnum, args)
        vals == <<Z0>> \o Arr([c \in 1..d |->
                    LET shifted == [args EXCEPT ![argnum + 1] = ShiftEntry(@, idx, c + 1)]
                    IN  Exp(log_normalizer(shifted[1], shifted[2], shifted[3]))])
    IN  IF d = 0 THEN Zero
        ELSE Only({RDiv(DifferenceSeries(v, 1), Z0) : v \in {vals}})

(* The gradient with respect to argument argnum, in the shape of that      *)
(* argument: a vector for argument 0, a matrix for arguments 1 and 2.      *)
grad(argnum, args) ==
    LET x == args[argnum + 1]
    IN  Only({IF argnum = 0
              THEN Arr([j \in 1..Len(x) |-> Partial(argnum, <<j>>, args, Z0)])
              ELSE Arr([i \in 1..Len(x) |->
                       Arr([j \in 1..Len(x[i]) |-> Partial(argnum, <<i, j>>, args, Z0)])]) :
              Z0 \in {Exp(log_normalizer(args[1], args[2], args[3]))}})

(* value_and_grad(log_normalizer, has_aux=True, argnums) applied to args:  *)
(* the gradients of the first output with respect to the arguments         *)
(* argnums, in the order of argnums.                                       *)
value_and_grad(argnums, args) ==
    Arr([n \in 1..Len(argnums) |-> grad(argnums[n], args)])

(* The arguments hmm_smoother hands to f.                                  *)
SmootherArgs ==
    <<LogVec(inp.initial_probs), LogMat(inp.transition_matrix), inp.log_likelihoods>>

(* The forward pass of f: hmm_filter on the exponentiated arguments.       *)
HmmSmootherStart ==
    /\ pc = "start"
    /\ kind = "hmm_smoother"
    /\ elems' = initial_messages(ExpVec(SmootherArgs[1]), ExpMat(SmootherArgs[2]),
                                 SmootherArgs[3])
    /\ op' = "marginalize"
    /\ reverse' = FALSE
    /\ stack' = <<elems'>>
    /\ pc' = "reduce"
    /\ UNCHANGED <<kind, inp, work, ret, post>>

(* hmm_smoother unpacking the gradients as (smoothed_probs, trans_probs).  *)
HmmSmootherReturn_exchanged ==
    /\ pc = "extract"
    /\ kind = "hmm_smoother"
    /\ LET fwd_post       == HMMPosterior(ExpVec(SmootherArgs[1]),
                                          ExpMat(SmootherArgs[2]), ret)
       IN  \E grads \in {value_and_grad(<<1, 2>>, SmootherArgs)} :
               LET smoothed_probs == grads[1]
                   trans_probs    == grads[2]
               IN  post' = [marginal_loglik |-> fwd_post.marginal_loglik,
                            filtered_probs  |-> fwd_post.filtered_probs,
                            predicted_probs |-> fwd_post.predicted_probs,
                            initial_probs   |-> smoothed_probs[1],
                            smoothed_probs  |-> smoothed_probs,
                            trans_probs     |-> trans_probs]
    /\ pc' = "done"
    /\ UNCHANGED <<kind, inp, op, reverse, elems, stack, work, ret>>

(* (marginal_loglik, fwd_post), (trans_probs, smoothed_probs) =            *)
(*     value_and_grad(log_normalizer, has_aux=True, argnums=(1, 2))(...)   *)
HmmSmootherReturn ==
    /\ pc = "extract"
    /\ kind = "hmm_smoother"
    /\ LET fwd_post       == HMMPosterior(ExpVec(SmootherArgs[1]),
                                          ExpMat(SmootherArgs[2]), ret)
       IN  \E grads \in {value_and_grad(<<1, 2>>, SmootherArgs)} :
               LET trans_probs    == grads[1]
                   smoothed_probs == grads[2]
               IN  post' = [marginal_loglik |-> fwd_post.marginal_loglik,
                            filtered_probs  |-> fwd_post.filtered_probs,
                            predicted_probs |-> fwd_post.predicted_probs,
                            initial_probs   |-> smoothed_probs[1],
                            smoothed_probs  |-> smoothed_probs,
                            trans_probs     |-> trans_probs]
    /\ pc' = "done"
    /\ UNCHANGED <<kind, inp, op, reverse, elems, stack, work, ret>>

----------------------------------------------------------------------------
(* lgssm_smoother, which starts with lgssm_filter                          *)

LgssmFilterStart ==
    /\ pc = "start"
    /\ kind = "lgssm"
    /\ elems' = make_associative_filtering_elements(inp.params, inp.emissions)
    /\ op' = "filtering_operator"
    /\ reverse' = FALSE
    /\ stack' = <<elems'>>
    /\ pc' = "reduce"
    /\ UNCHANGED <<kind, inp, work, ret, post>>

LgssmFilterReturn ==
    /\ pc = "extract"
    /\ op = "filtering_operator"
    /\ post' = [filtered_means       |-> Arr([t \in 1..Len(ret) |-> ret[t].b]),
                filtered_covariances |-> Arr([t \in 1..Len(ret) |-> ret[t].C])]
    /\ pc' = "filtered"
    /\ UNCHANGED <<kind, inp, op, reverse, elems, stack, work, ret>>

(* lgssm_smoother calling the scan without reverse=True.                   *)
LgssmSmootherStart_forward ==
    /\ pc = "filtered"
    /\ elems' = make_associative_smoothing_elements(
                    inp.params, post.filtered_means, post.filtered_covariances)
    /\ op' = "smoothing_operator"
    /\ reverse' = FALSE
    /\ stack' = <<Flip(FALSE, elems')>>
    /\ pc' = "reduce"
    /\ UNCHANGED <<kind, inp, work, ret, post>>

LgssmSmootherStart ==
    /\ pc = "filtered"
    /\ elems' = make_associative_smoothing_elements(
                    inp.params, post.filtered_means, post.filtered_covariances)
    /\ op' = "smoothing_operator"
    /\ reverse' = TRUE
    /\ stack' = <<Flip(TRUE, elems')>>
    /\ pc' = "reduce"
    /\ UNCHANGED <<kind, inp, work, ret, post>>

LgssmSmootherReturn ==
    /\ pc = "extract"
    /\ op = "smoothing_operator"
    /\ post' = [filtered_means       |-> post.filtered_means,
                filtered_covariances |-> post.filtered_covariances,
                smoothed_means       |-> Arr([t \in 1..Len(ret) |-> ret[t].g]),
                smoothed_covariances |-> Arr([t \in 1..Len(ret) |-> ret[t].L])]
    /\ pc' = "done"
    /\ UNCHANGED <<kind, inp, op, reverse, elems, stack, work, ret>>

----------------------------------------------------------------------------

Init ==
    /\ \/ kind = "hmm" /\ inp \in HmmInputs
       \/ kind = "hmm_smoother" /\ inp \in HmmSmootherInputs
       \/ kind = "lgssm" /\ inp \in LgssmInputs
    /\ pc = "start"
    /\ op = "none"
    /\ reverse = FALSE
    /\ elems = <<>>
    /\ stack = <<>>
    /\ work = NoWork
    /\ ret = <<>>
    /\ post = None

Next ==
    \/ HmmStart
    \/ HmmReturn
    \/ HmmSmootherStart
    \/ HmmSmootherReturn
    \/ LgssmFilterStart
    \/ LgssmFilterReturn
    \/ LgssmSmootherStart
    \/ LgssmSmootherReturn
    \/ \E i \in 1..(MaxT \div 2) : ReducePair(i)
    \/ Recurse
    \/ BaseCase
    \/ \E i \in 1..(MaxT \div 2) : EvenPair(i)
    \/ Return

Spec == Init /\ [][Next]_vars

----------------------------------------------------------------------------
(* Input contracts and reference algorithms.                               *)

NonNeg(a) == ~IsNaN(a) /\ a[1] >= 0

OnSimplex(p) == (\A j \in 1..Len(p) : NonNeg(p[j])) /\ RSum(p) = One

RowStochastic(A) == \A i \in 1..Len(A) : OnSimplex(A[i])

ValidModel ==
    kind = "hmm" /\ OnSimplex(inp.initial_probs) /\ RowStochastic(inp.transition_matrix)

FiniteLog(x) == ~IsNaN(Exp(x)) /\ Exp(x)[1] > 0

FiniteLogLik ==
    \A t \in 1..Len(inp.log_likelihoods) :
        \A j \in 1..Len(inp.log_likelihoods[t]) : FiniteLog(inp.log_likelihoods[t][j])

Swapped(o, a, b) == Combine(o, b, a)

RECURSIVE FoldSwapped(_, _, _)
FoldSwapped(o, e, t) ==
    IF t = 1 THEN e[1] ELSE Swapped(o, FoldSwapped(o, e, t - 1), e[t])

IsAssociative(o, m1, m2, m3) ==
    Combine(o, Combine(o, m1, m2), m3) = Combine(o, m1, Combine(o, m2, m3))

(* Associativity on every three adjacent segments of e.                    *)
AssociativeOnAdjacent(o, e) ==
    \A a \in 1..Len(e) : \A b \in a..Len(e) : \A c \in (b + 1)..Len(e) :
        \A d \in (c + 1)..Len(e) :
            IsAssociative(o, FoldSeg(o, e, a, b), FoldSeg(o, e, b + 1, c),
                          FoldSeg(o, e, c + 1, d))

(* The sequential forward algorithm.                                       *)
RECURSIVE Forward(_)
Forward(t) ==
    LET prior == IF t = 1 THEN inp.initial_probs
                 ELSE VecMat(Forward(t - 1).probs, inp.transition_matrix)
        joint == Arr([j \in 1..Len(prior) |-> RMul(prior[j], Exp(inp.log_likelihoods[t][j]))])
        Z     == RSum(joint)
    IN  [probs |-> Arr([j \in 1..Len(prior) |-> RDiv(joint[j], Z)]),
         logZ  |-> IF t = 1 THEN Log(Z) ELSE LogAdd(Forward(t - 1).logZ, Log(Z))]

(* The sequential Kalman filter.                                           *)
RECURSIVE Kalman(_)
Kalman(t) ==
    LET F   == inp.params.dynamics_matrix
        H   == inp.params.emission_matrix
        mp  == IF t = 1 THEN inp.params.initial_mean ELSE MatVec(F, Kalman(t - 1).m)
        Pp  == IF t = 1 THEN inp.params.initial_covariance
               ELSE MatAdd(MatMul(MatMul(F, Kalman(t - 1).P), Transpose(F)),
                           inp.params.dynamics_covariance)
        S   == MatAdd(MatMul(MatMul(H, Pp), Transpose(H)), inp.params.emission_covariance)
        K   == MatMul(MatMul(Pp, Transpose(H)), Inverse(S))
    IN  [m |-> VecAdd(mp, MatVec(K, VecSub(inp.emissions[t], MatVec(H, mp)))),
         P |-> MatSub(Pp, MatMul(MatMul(K, S), Transpose(K)))]

(* The sequential Rauch-Tung-Striebel recursion over the filtered results. *)
RECURSIVE RTS(_)
RTS(t) ==
    LET n == Len(post.filtered_means)
    IN  IF t = n
        THEN [m |-> post.filtered_means[n], P |-> post.filtered_covariances[n]]
        ELSE LET el == generic_smoothing_element(inp.params, post.filtered_means[t],
                                                 post.filtered_covariances[t])
                 nx == RTS(t + 1)
             IN  [m |-> VecAdd(MatVec(el.E, nx.m), el.g),
                  P |-> MatAdd(MatMul(MatMul(el.E, nx.P), Transpose(el.E)), el.L)]

----------------------------------------------------------------------------
(* Properties.                                                             *)

(* The elements of the running call have just been built: the scan has     *)
(* been handed them and has combined nothing yet.  elems keeps this value  *)
(* until the call returns.                                                 *)
Built == pc = "reduce" /\ Len(stack) = 1 /\ work = NoWork

NumT == Len(inp.log_likelihoods)

RowsSumToOne(A) == \A i \in 1..Len(A) : RSum(A[i]) = One

WellFormedMessage(m) ==
    RowsSumToOne(m.A) /\ \A i \in 1..Len(m.log_b) : FiniteLog(m.log_b[i])

(* C1: the tree-structured scan of hmm_filter and of lgssm_filter returns  *)
(* at every index t the left-to-right inclusive fold elems[0] (+) ... (+)  *)
(* elems[t], in whatever order the pairs of a tree level are combined.     *)
ScanIsInclusiveFold ==
    pc = "extract" /\ op \in {"marginalize", "filtering_operator"} =>
        ret = InclusiveFold(op, elems)

ScanOfFourFinished ==
    pc = "extract" /\ op \in {"marginalize", "filtering_operator"} /\ Len(elems) >= 4

(* C2: for a model on the simplex, hmm_filter's filtered_probs and         *)
(* marginal_loglik are those of the sequential forward algorithm, for      *)
(* every log-likelihood the input contract admits (finite or minus         *)
(* infinity).                                                              *)
HmmFilterIsForwardAlgorithm ==
    pc = "done" /\ ValidModel =>
        /\ post.filtered_probs = [t \in 1..NumT |-> Forward(t).probs]
        /\ post.marginal_loglik = Forward(NumT).logZ

(* The same with every log-likelihood finite.                              *)
HmmFilterIsForwardAlgorithmOnFinite ==
    pc = "done" /\ ValidModel /\ FiniteLogLik =>
        /\ post.filtered_probs = [t \in 1..NumT |-> Forward(t).probs]
        /\ post.marginal_loglik = Forward(NumT).logZ

(* C3: lgssm_filter's filtered_means and filtered_covariances are the      *)
(* means and covariances of the sequential Kalman filter, for all t.       *)
LgssmFilterIsKalmanFilter ==
    kind = "lgssm" /\ pc \in {"filtered", "done"} =>
        /\ post.filtered_means = [t \in 1..Len(inp.emissions) |-> Kalman(t).m]
        /\ post.filtered_covariances = [t \in 1..Len(inp.emissions) |-> Kalman(t).P]

FilteredFourSteps == pc = "filtered" /\ Len(inp.emissions) >= 4

(* C4: lgssm_smoother's smoothed_means and smoothed_covariances are those  *)
(* of the sequential Rauch-Tung-Striebel recursion over the filtered       *)
(* results: the filtered values at T-1, and E_t x[t+1] + g_t,              *)
(* E_t P[t+1] E_t^T + L_t before.                                          *)
LgssmSmootherIsRTS ==
    kind = "lgssm" /\ pc = "done" =>
        /\ post.smoothed_means = [t \in 1..Len(inp.emissions) |-> RTS(t).m]
        /\ post.smoothed_covariances = [t \in 1..Len(inp.emissions) |-> RTS(t).P]

SmoothedFourSteps == kind = "lgssm" /\ pc = "done" /\ Len(inp.emissions) >= 4

(* C5: filtering_operator is associative on every three adjacent elements  *)
(* built by make_associative_filtering_elements and on every three         *)
(* adjacent combinations of them, in all five components.                  *)
FilteringOperatorAssociative ==
    op = "filtering_operator" /\ Built => AssociativeOnAdjacent(op, elems)

FilteringElementsBuilt == op = "filtering_operator" /\ Built /\ Len(elems) >= 4

SmoothingOperatorAssociative ==
    op = "smoothing_operator" /\ Built =>
        /\ \A a, b, c \in {1, 2, Len(elems)} \cap (1..Len(elems)) :
              IsAssociative(op, elems[a], elems[b], elems[c])
        /\ AssociativeOnAdjacent(op, Reverse(elems))

SmoothingElementsBuilt == op = "smoothing_operator" /\ Built /\ Len(elems) >= 4

(* C8: for a model on the simplex and log-likelihoods finite or minus      *)
(* infinity, every row of filtered_probs and predicted_probs sums to 1,    *)
(* and every message built or combined has rows of A summing to 1 and      *)
(* finite log_b.                                                           *)
SimplexInvariant ==
    ValidModel =>
        /\ pc = "done" =>
              RowsSumToOne(post.filtered_probs) /\ RowsSumToOne(post.predicted_probs)
        /\ \A t \in 1..Len(elems) : WellFormedMessage(elems[t])
        /\ \A i \in DOMAIN work : WellFormedMessage(work[i])
        /\ \A t \in 1..Len(ret) : WellFormedMessage(ret[t])

(* The same with every log-likelihood finite.                              *)
SimplexInvariantOnFinite ==
    ValidModel /\ FiniteLogLik =>
        /\ pc = "done" =>
              RowsSumToOne(post.filtered_probs) /\ RowsSumToOne(post.predicted_probs)
        /\ \A t \in 1..Len(elems) : WellFormedMessage(elems[t])
        /\ \A i \in DOMAIN work : WellFormedMessage(work[i])
        /\ \A t \in 1..Len(ret) : WellFormedMessage(ret[t])

(* C9, as stated: the reverse scan of lgssm_smoother returns what          *)
(* reversing the elements, scanning forward with the operands of           *)
(* smoothing_operator swapped, and reversing the output returns.           *)
ReverseScanIsSwappedForwardScan ==
    pc = "extract" /\ op = "smoothing_operator" =>
        ret = Reverse([t \in 1..Len(elems) |-> FoldSwapped(op, Reverse(elems), t)])

(* C9, amended: the reverse scan of lgssm_smoother returns what reversing  *)
(* the elements, scanning forward with smoothing_operator as it is (the    *)
(* accumulated later elements first, the element at t second), and         *)
(* reversing the output returns.                                           *)
ReverseScanIsForwardScanOfReversed ==
    pc = "extract" /\ op = "smoothing_operator" =>
        ret = Reverse(InclusiveFold(op, Reverse(elems)))

ReverseScanFinished == pc = "extract" /\ op = "smoothing_operator" /\ Len(elems) >= 4

(* C10: hmm_filter returns no posterior when initial_probs is off the      *)
(* simplex or a row of transition_matrix does not sum to 1.                *)
FailsFastOffSimplex ==
    kind = "hmm" /\ ~ValidModel => post = None


----------------------------------------------------------------------------
(* hmm_smoother                                                            *)

Smoothed == kind = "hmm_smoother" /\ pc = "done"

(* The entries of a matrix, row after row.                                 *)
RECURSIVE Entries(_)
Entries(M) == IF M = <<>> THEN <<>> ELSE M[1] \o Entries(Tail(M))

(* The classical backward messages, unnormalized: Backward(T) = 1 and      *)
(* Backward(t)[i] = sum_j transition_matrix[i, j] lik[t+1, j]              *)
(* Backward(t+1)[j].                                                       *)
RECURSIVE Backward(_)
Backward(t) ==
    LET K == Len(inp.initial_probs)
    IN  IF t = NumT THEN Arr([i \in 1..K |-> One])
        ELSE LET next == Backward(t + 1)
                 w    == Arr([j \in 1..K |->
                             RMul(Exp(inp.log_likelihoods[t + 1][j]), next[j])])
             IN  MatVec(inp.transition_matrix, w)

(* The posterior marginal of the state at t.                               *)
PosteriorMarginal(t) ==
    LET K == Len(inp.initial_probs)
        a == Forward(t).probs
        b == Backward(t)
        u == Arr([i \in 1..K |-> RMul(a[i], b[i])])
    IN  Arr([i \in 1..K |-> RDiv(u[i], RSum(u))])

(* The posterior probability of the transition i -> j between t and t + 1. *)
PosteriorTransition(t) ==
    LET K == Len(inp.initial_probs)
        a == Forward(t).probs
        b == Backward(t + 1)
        u == Arr([i \in 1..K |-> Arr([j \in 1..K |->
                 RMul(RMul(a[i], inp.transition_matrix[i][j]),
                      RMul(Exp(inp.log_likelihoods[t + 1][j]), b[j]))])])
        Z == RSum(Entries(u))
    IN  Arr([i \in 1..K |-> Arr([j \in 1..K |-> RDiv(u[i][j], Z)])])

(* The expected number of transitions i -> j.                              *)
RECURSIVE ExpectedTransitions(_)
ExpectedTransitions(t) ==
    IF t = 0 THEN Arr([i \in 1..Len(inp.initial_probs) |->
                      Arr([j \in 1..Len(inp.initial_probs) |-> Zero])])
    ELSE MatAdd(ExpectedTransitions(t - 1), PosteriorTransition(t))

(* With every log-likelihood finite, what hmm_smoother returns are the     *)
(* posterior marginals and the expected transition counts of the           *)
(* forward-backward algorithm, and the gradient with respect to            *)
(* log_initial_probs is the posterior marginal of the first state.         *)
HmmSmootherIsForwardBackward ==
    Smoothed /\ FiniteLogLik =>
        /\ post.smoothed_probs = [t \in 1..NumT |-> PosteriorMarginal(t)]
        /\ post.trans_probs = ExpectedTransitions(NumT - 1)
        /\ grad(0, SmootherArgs) = PosteriorMarginal(1)

(* C11, as stated: smoothed_probs and trans_probs are the gradients of     *)
(* hmm_filter's marginal log-likelihood with respect to the log initial    *)
(* distribution and the log transition matrix, and the smoothed initial    *)
(* distribution is smoothed_probs[0].                                      *)
SmootherReturnsGradientsOfLogInitialAndLogTransition ==
    Smoothed =>
        /\ Entries(post.smoothed_probs) = grad(0, SmootherArgs)
        /\ post.trans_probs = grad(1, SmootherArgs)
        /\ post.initial_probs = post.smoothed_probs[1]

(* C11, amended: trans_probs and smoothed_probs are the gradients of       *)
(* hmm_filter's marginal log-likelihood with respect to the log transition *)
(* matrix and the log-likelihoods, evaluated at log(transition_matrix) and *)
(* log_likelihoods (and at log(initial_probs)), and the smoothed initial   *)
(* distribution is smoothed_probs[0].                                      *)
SmootherReturnsGradientsOfLogTransitionAndLogLikelihoods ==
    Smoothed =>
        /\ post.trans_probs = grad(1, SmootherArgs)
        /\ post.smoothed_probs = grad(2, SmootherArgs)
        /\ post.initial_probs = post.smoothed_probs[1]

SmoothedThreeObservations ==
    Smoothed /\ NumT >= 3 /\ FiniteLogLik /\ RowsSumToOne(post.smoothed_probs)

=============================================================================
